---- MODULE Spec2Model ----
(***************************************************************************)
(* Student Finance Tracker (script.js): the transaction ledger, its        *)
(* aggregation, the savings goal, the theme and the transaction form, with *)
(* the three localStorage records they are persisted in.                   *)
(*                                                                         *)
(* JavaScript numbers are modelled as NaN, null (a NaN that went through   *)
(* JSON) or an exact rational n/d; the amounts typed into the form are     *)
(* whole numbers, so sums are exact.  Infinity is not modelled.            *)
(***************************************************************************)
EXTENDS Integers, Sequences, FiniteSets, TLC

\* ------------------------------------------------------------------------
\* Bounds
\* ------------------------------------------------------------------------

\* The ledger holds at most MaxTxns records (the code has no limit).
MaxTxns == 2

\* ------------------------------------------------------------------------
\* 1. Constants
\* ------------------------------------------------------------------------

\* Category options per type; the first option of each list of the source.
CATEGORIES == [income |-> <<"Gaji">>, expense |-> <<"Makanan">>]

\* The values uid() can return.
Ids == {1, 2}

\* What the user can have typed in #txnAmount and #goalAmount when the
\* handler reads it, and in #goalName.
AmountInputs == {"", "0", "1", "2"}
TargetInputs == {"", "0", "-1", "2"}
NameInputs == {"", "  ", "Laptop"}

\* ------------------------------------------------------------------------
\* JavaScript numbers
\* ------------------------------------------------------------------------

NaN == [k |-> "nan", n |-> 0, d |-> 1]
Null == [k |-> "null", n |-> 0, d |-> 1]
Unset == [k |-> "unset", n |-> 0, d |-> 1]
Num(i) == [k |-> "num", n |-> i, d |-> 1]

IsNaN(a) == a.k = "nan"

\* ToNumber: null converts to 0.
ToNumber(a) == IF a.k = "null" THEN Num(0) ELSE a

RECURSIVE Gcd(_, _)
Gcd(a, b) == IF b = 0 THEN a ELSE Gcd(b, a % b)

Abs(i) == IF i < 0 THEN 0 - i ELSE i

\* The rational n/d in lowest terms, d > 0.
Ratio(n, d) ==
  LET g == Gcd(Abs(n), Abs(d))
      s == IF d < 0 THEN 0 - 1 ELSE 1
  IN [k |-> "num", n |-> (s * n) \div g, d |-> Abs(d) \div g]

\* a + b
Plus(a, b) ==
  LET x == ToNumber(a)
      y == ToNumber(b)
  IN IF IsNaN(x) \/ IsNaN(y) THEN NaN
     ELSE Ratio(x.n * y.d + y.n * x.d, x.d * y.d)

\* a - b
Minus(a, b) ==
  LET x == ToNumber(a)
      y == ToNumber(b)
  IN IF IsNaN(x) \/ IsNaN(y) THEN NaN
     ELSE Ratio(x.n * y.d - y.n * x.d, x.d * y.d)

\* a > b: false as soon as one side is NaN.
Gt(a, b) ==
  LET x == ToNumber(a)
      y == ToNumber(b)
  IN /\ ~IsNaN(x)
     /\ ~IsNaN(y)
     /\ x.n * y.d > y.n * x.d

\* a <= b: false as soon as one side is NaN.
Le(a, b) ==
  LET x == ToNumber(a)
      y == ToNumber(b)
  IN /\ ~IsNaN(x)
     /\ ~IsNaN(y)
     /\ x.n * y.d <= y.n * x.d

\* (a / b) * 100, for b # 0 (0/0 is NaN).
DivTimes100(a, b) ==
  LET x == ToNumber(a)
      y == ToNumber(b)
  IN IF IsNaN(x) \/ IsNaN(y) \/ y.n = 0 THEN NaN
     ELSE Ratio(x.n * 100 * y.d, x.d * y.n)

\* Math.max(a, b) and Math.min(a, b): NaN as soon as one argument is NaN.
MathMax(a, b) ==
  IF IsNaN(ToNumber(a)) \/ IsNaN(ToNumber(b)) THEN NaN
  ELSE IF Gt(b, a) THEN ToNumber(b) ELSE ToNumber(a)

MathMin(a, b) ==
  IF IsNaN(ToNumber(a)) \/ IsNaN(ToNumber(b)) THEN NaN
  ELSE IF Gt(a, b) THEN ToNumber(b) ELSE ToNumber(a)

\* parseFloat on the texts a number input can hold.
parseFloat(s) ==
  CASE s = "" -> NaN
    [] s = "0" -> Num(0)
    [] s = "1" -> Num(1)
    [] s = "2" -> Num(2)
    [] s = "-1" -> Num(0 - 1)

\* String.prototype.trim on the texts of NameInputs.
trim(s) == IF s = "  " THEN "" ELSE s

\* !x for a number: 0 and NaN are falsy.
Falsy(a) == IsNaN(a) \/ a.k = "null" \/ (a.k = "num" /\ a.n = 0)

\* ------------------------------------------------------------------------
\* 2. State
\* ------------------------------------------------------------------------

VARIABLES
  transactions,     \* let transactions: what loadJSON returned, or the ledger
  savingsGoal,      \* let savingsGoal: null or {name, target}
  localStorage,     \* the records sft_transactions, sft_theme, sft_goal
  lightMode,        \* document.body.classList contains 'light-mode'
  typeValue,        \* dom.type.value
  categoryOptions,  \* the options of dom.category after the placeholder
  categoryValue,    \* dom.category.value ("" is the placeholder)
  alertVisible,     \* dom.alertBanner.classList contains 'visible'
  balanceBar,       \* the number in dom.balanceBar.style.width
  pieChart,         \* labels and data of the doughnut chart, <<>> when null
  barChart,         \* data of the bar chart
  savingsHidden,    \* dom.savingsDisplay.classList contains 'hidden'
  goalBar,          \* the number in dom.goalBar.style.width
  last              \* the handler that ran last, its argument, and whether
                    \* it ended in an uncaught error

vars ==
  << transactions, savingsGoal, localStorage, lightMode, typeValue,
     categoryOptions, categoryValue, alertVisible, balanceBar, pieChart,
     barChart, savingsHidden, goalBar, last >>

\* A transaction record.  date and desc are strings that no computation
\* reads and that JSON keeps as they are; they are left out.
Txn(id, type, amount, category) ==
  [id |-> id, type |-> type, amount |-> amount, category |-> category]

\* The values the variable transactions can hold.
Arr(items) == [k |-> "array", items |-> items]
NotArr(kind) == [k |-> kind, items |-> << >>]
IsArray(v) == v.k = "array"

\* The values the variable savingsGoal can hold.
NoGoal == [k |-> "null", name |-> "", target |-> Null]
Goal(name, target) == [k |-> "object", name |-> name, target |-> target]

\* ------------------------------------------------------------------------
\* 3. Helpers: JSON and localStorage
\* ------------------------------------------------------------------------

\* A storage record: absent (getItem returns null), the empty string, a text
\* that is not JSON, the JSON text of a value, or a plain string.
Absent == [k |-> "absent", v |-> ""]
EmptyText == [k |-> "empty", v |-> ""]
Garbage == [k |-> "garbage", v |-> ""]
JsonText(v) == [k |-> "json", v |-> v]
PlainText(s) == IF s = "" THEN EmptyText ELSE [k |-> "plain", v |-> s]

\* JSON.stringify writes NaN as null.
JsonNumber(a) == IF IsNaN(a) THEN Null ELSE a

RECURSIVE JsonItems(_)
JsonItems(items) ==
  IF items = << >> THEN << >>
  ELSE << [Head(items) EXCEPT !.amount = JsonNumber(@)] >>
         \o JsonItems(Tail(items))

\* JSON.stringify of the ledger and of the goal.
StringifyTransactions(v) ==
  JsonText(IF IsArray(v) THEN Arr(JsonItems(v.items)) ELSE v)

StringifyGoal(g) ==
  JsonText(IF g.k = "object" THEN [g EXCEPT !.target = JsonNumber(@)] ELSE g)

\* function loadJSON(key, fallback): the fallback when the record is absent
\* or empty or when JSON.parse throws, what JSON.parse returns otherwise.
loadJSON(raw, fallback) ==
  IF raw.k \in {"absent", "empty"} THEN fallback
  ELSE IF raw.k = "json" THEN raw.v
  ELSE fallback

\* function saveJSON(key, data), one function per key.
persist(ls, v) == [ls EXCEPT !.sft_transactions = StringifyTransactions(v)]
saveGoal(ls, g) == [ls EXCEPT !.sft_goal = StringifyGoal(g)]

\* localStorage.getItem(STORAGE_KEYS.THEME) || 'dark'
savedTheme(ls) ==
  IF ls.sft_theme.k \in {"absent", "empty"} THEN "dark" ELSE ls.sft_theme.v

\* ------------------------------------------------------------------------
\* 7. Calculations
\* ------------------------------------------------------------------------

RECURSIVE SumOfType(_, _, _)
\* items.filter(t => t.type === type).reduce((s, t) => s + t.amount, s)
SumOfType(items, type, s) ==
  IF items = << >> THEN s
  ELSE IF Head(items).type = type
       THEN SumOfType(Tail(items), type, Plus(s, Head(items).amount))
       ELSE SumOfType(Tail(items), type, s)

\* calcTotals with the filter of the expense sum forgotten.
calcTotals_ExpenseOfAll(items) ==
  LET income == SumOfType(items, "income", Num(0))
      expense == Plus(SumOfType(items, "income", Num(0)),
                      SumOfType(items, "expense", Num(0)))
  IN [income |-> income, expense |-> expense,
      balance |-> Minus(income, expense)]

calcTotals(items) ==
  LET income == SumOfType(items, "income", Num(0))
      expense == SumOfType(items, "expense", Num(0))
  IN [income |-> income, expense |-> expense,
      balance |-> Minus(income, expense)]

\* ------------------------------------------------------------------------
\* 8. Summary cards
\* ------------------------------------------------------------------------

\* const pct of renderSummary
balancePercent(items) ==
  LET t == calcTotals(items)
  IN IF Gt(t.income, Num(0))
     THEN MathMax(Num(0), MathMin(Num(100), DivTimes100(t.balance, t.income)))
     ELSE Num(0)

\* The alert condition without its test of income > 0.
overspendAlert_AnyIncome(items) ==
  LET t == calcTotals(items)
  IN Gt(t.expense, t.income)

\* the condition of the warning alert of renderSummary
overspendAlert(items) ==
  LET t == calcTotals(items)
  IN Gt(t.expense, t.income) /\ Gt(t.income, Num(0))

\* ------------------------------------------------------------------------
\* 10. Charts
\* ------------------------------------------------------------------------

\* grouped[category] || 0
Or0(v) == IF Falsy(v) THEN Num(0) ELSE v

\* grouped[t.category] = (grouped[t.category] || 0) + t.amount, on the
\* sequence of the keys of grouped, in insertion order, with their values.
AddToGroup(grouped, t) ==
  IF \E i \in 1..Len(grouped) : grouped[i].label = t.category
  THEN [i \in 1..Len(grouped) |->
          IF grouped[i].label = t.category
          THEN [grouped[i] EXCEPT !.value = Plus(Or0(@), t.amount)]
          ELSE grouped[i]]
  ELSE Append(grouped, [label |-> t.category, value |-> Plus(Num(0), t.amount)])

RECURSIVE GroupExpenses(_, _)
GroupExpenses(items, grouped) ==
  IF items = << >> THEN grouped
  ELSE IF Head(items).type = "expense"
       THEN GroupExpenses(Tail(items), AddToGroup(grouped, Head(items)))
       ELSE GroupExpenses(Tail(items), grouped)

\* const grouped of renderPieChart
expenseByCategory(items) == GroupExpenses(items, << >>)

\* data: [income, expense] of renderBarChart
barData(items) ==
  LET t == calcTotals(items)
  IN [income |-> t.income, expense |-> t.expense]

\* ------------------------------------------------------------------------
\* 11. Savings goal
\* ------------------------------------------------------------------------

\* const saved and const pct of renderGoal
goalSaved(items) == MathMax(Num(0), calcTotals(items).balance)

goalPercent(goal, items) ==
  MathMin(Num(100), DivTimes100(goalSaved(items), goal.target))

\* function renderGoal(), the width it gives dom.goalBar: it returns before
\* it touches the bar when there is no goal.
renderGoalBar(goal, items, old) ==
  IF goal.k = "null" THEN old ELSE goalPercent(goal, items)

\* ------------------------------------------------------------------------
\* 5. Category dropdown
\* ------------------------------------------------------------------------

\* The 'change' event of dom.type, the user having picked the type t:
\* function populateCategories().
populateCategories(t) ==
  /\ t # typeValue
  /\ typeValue' = t
  /\ categoryOptions' = IF t # "" /\ t \in DOMAIN CATEGORIES
                        THEN CATEGORIES[t] ELSE << >>
  /\ categoryValue' = ""
  /\ last' = [op |-> "type", arg |-> << >>, threw |-> FALSE]
  /\ UNCHANGED << transactions, savingsGoal, localStorage, lightMode,
                  alertVisible, balanceBar, pieChart, barChart,
                  savingsHidden, goalBar >>

\* The user picks one of the options dom.category offers.
selectCategory(c) ==
  /\ \E i \in 1..Len(categoryOptions) : categoryOptions[i] = c
  /\ c # categoryValue
  /\ categoryValue' = c
  /\ last' = [op |-> "category", arg |-> << >>, threw |-> FALSE]
  /\ UNCHANGED << transactions, savingsGoal, localStorage, lightMode,
                  typeValue, categoryOptions, alertVisible, balanceBar,
                  pieChart, barChart, savingsHidden, goalBar >>

\* ------------------------------------------------------------------------
\* 12. Master refresh
\* ------------------------------------------------------------------------

\* function refresh() on a ledger that is an array: renderSummary,
\* renderCharts, renderGoal.
refresh(items, goal) ==
  /\ balanceBar' = balancePercent(items)
  /\ alertVisible' = overspendAlert(items)
  /\ pieChart' = expenseByCategory(items)
  /\ barChart' = barData(items)
  /\ savingsHidden' = (goal.k = "null")
  /\ goalBar' = renderGoalBar(goal, items, goalBar)

\* ------------------------------------------------------------------------
\* 6. Transaction CRUD
\* ------------------------------------------------------------------------

\* The 'submit' event of the form, uid() returning id and dom.amount
\* holding amountText: function addTransaction(e).  On a ledger that is not
\* an array, transactions.push throws.
addTransaction(id, amountText) ==
  IF IsArray(transactions)
  THEN /\ Len(transactions.items) < MaxTxns
       /\ LET txn == Txn(id, typeValue, parseFloat(amountText), categoryValue)
              list == Arr(Append(transactions.items, txn))
          IN /\ transactions' = list
             /\ localStorage' = persist(localStorage, list)
             /\ refresh(list.items, savingsGoal)
       /\ typeValue' = ""
       /\ categoryOptions' = << >>
       /\ categoryValue' = ""
       /\ last' = [op |-> "add", arg |-> << >>, threw |-> FALSE]
       /\ UNCHANGED << savingsGoal, lightMode >>
  ELSE /\ last' = [op |-> "add", arg |-> << >>, threw |-> TRUE]
       /\ UNCHANGED << transactions, savingsGoal, localStorage, lightMode,
                       typeValue, categoryOptions, categoryValue,
                       alertVisible, balanceBar, pieChart, barChart,
                       savingsHidden, goalBar >>

RECURSIVE Without_KeepsMatching(_, _)
\* The filter with === in place of !==.
Without_KeepsMatching(items, id) ==
  IF items = << >> THEN << >>
  ELSE IF Head(items).id = id
       THEN << Head(items) >> \o Without_KeepsMatching(Tail(items), id)
       ELSE Without_KeepsMatching(Tail(items), id)

RECURSIVE Without(_, _)
\* items.filter((t) => t.id !== id)
Without(items, id) ==
  IF items = << >> THEN << >>
  ELSE IF Head(items).id # id
       THEN << Head(items) >> \o Without(Tail(items), id)
       ELSE Without(Tail(items), id)

\* function deleteTransaction(id).  On a ledger that is not an array,
\* transactions.filter throws.
deleteTransaction(id) ==
  IF IsArray(transactions)
  THEN /\ LET list == Arr(Without(transactions.items, id))
          IN /\ transactions' = list
             /\ localStorage' = persist(localStorage, list)
             /\ refresh(list.items, savingsGoal)
       /\ last' = [op |-> "delete", arg |-> << id >>, threw |-> FALSE]
       /\ UNCHANGED << savingsGoal, lightMode, typeValue, categoryOptions,
                       categoryValue >>
  ELSE /\ last' = [op |-> "delete", arg |-> << id >>, threw |-> TRUE]
       /\ UNCHANGED << transactions, savingsGoal, localStorage, lightMode,
                       typeValue, categoryOptions, categoryValue,
                       alertVisible, balanceBar, pieChart, barChart,
                       savingsHidden, goalBar >>

\* ------------------------------------------------------------------------
\* 4. Theme toggle
\* ------------------------------------------------------------------------

\* function applyTheme(mode), the record it writes.
applyTheme(ls, mode) == [ls EXCEPT !.sft_theme = PlainText(mode)]

\* function toggleTheme(): renderCharts throws on a ledger that is not an
\* array, after the theme is applied.
toggleTheme ==
  LET next == IF lightMode THEN "dark" ELSE "light"
  IN /\ lightMode' = (next = "light")
     /\ localStorage' = applyTheme(localStorage, next)
     /\ IF IsArray(transactions)
        THEN /\ pieChart' = expenseByCategory(transactions.items)
             /\ barChart' = barData(transactions.items)
        ELSE UNCHANGED << pieChart, barChart >>
     /\ last' = [op |-> "theme", arg |-> << >>,
                 threw |-> ~IsArray(transactions)]
     /\ UNCHANGED << transactions, savingsGoal, typeValue, categoryOptions,
                     categoryValue, alertVisible, balanceBar, savingsHidden,
                     goalBar >>

\* ------------------------------------------------------------------------
\* 11. Savings goal (handlers)
\* ------------------------------------------------------------------------

\* The validation without its test of target <= 0.
goalRejected_NoSignTest(name, target) ==
  name = "" \/ Falsy(target)

\* if (!name || !target || target <= 0) return;
goalRejected(name, target) ==
  name = "" \/ Falsy(target) \/ Le(target, Num(0))

\* The click on dom.setGoalBtn, dom.goalName holding nameText and
\* dom.goalAmount holding targetText: function setGoal().  renderGoal throws
\* in calcTotals on a ledger that is not an array.
setGoal(nameText, targetText) ==
  LET name == trim(nameText)
      target == parseFloat(targetText)
  IN IF goalRejected(name, target)
     THEN /\ last' = [op |-> "setGoal", arg |-> << nameText, targetText >>,
                      threw |-> FALSE]
          /\ UNCHANGED << transactions, savingsGoal, localStorage, lightMode,
                          typeValue, categoryOptions, categoryValue,
                          alertVisible, balanceBar, pieChart, barChart,
                          savingsHidden, goalBar >>
     ELSE /\ savingsGoal' = Goal(name, target)
          /\ localStorage' = saveGoal(localStorage, Goal(name, target))
          /\ savingsHidden' = FALSE
          /\ goalBar' = IF IsArray(transactions)
                        THEN goalPercent(Goal(name, target), transactions.items)
                        ELSE goalBar
          /\ last' = [op |-> "setGoal", arg |-> << nameText, targetText >>,
                      threw |-> ~IsArray(transactions)]
          /\ UNCHANGED << transactions, lightMode, typeValue, categoryOptions,
                          categoryValue, alertVisible, balanceBar, pieChart,
                          barChart >>

\* function clearGoal()
clearGoal ==
  /\ savingsGoal' = NoGoal
  /\ localStorage' = [localStorage EXCEPT !.sft_goal = Absent]
  /\ savingsHidden' = TRUE
  /\ last' = [op |-> "clearGoal", arg |-> << >>, threw |-> FALSE]
  /\ UNCHANGED << transactions, lightMode, typeValue, categoryOptions,
                  categoryValue, alertVisible, balanceBar, pieChart,
                  barChart, goalBar >>

\* ------------------------------------------------------------------------
\* 13. Event bindings and initialisation
\* ------------------------------------------------------------------------

\* The click on dom.alertClose.
alertClose ==
  /\ alertVisible
  /\ alertVisible' = FALSE
  /\ last' = [op |-> "alertClose", arg |-> << >>, threw |-> FALSE]
  /\ UNCHANGED << transactions, savingsGoal, localStorage, lightMode,
                  typeValue, categoryOptions, categoryValue, balanceBar,
                  pieChart, barChart, savingsHidden, goalBar >>

\* The DOMContentLoaded handler on a fresh document with the storage ls:
\* the values it leaves.  loadGoal's renderGoal and then refresh throw in
\* calcTotals when what loadJSON returned for the ledger is not an array.
Loaded(ls) ==
  LET txs == loadJSON(ls.sft_transactions, Arr(<< >>))
      goal == loadJSON(ls.sft_goal, NoGoal)
      mode == savedTheme(ls)
      ok == IsArray(txs)
  IN [transactions |-> txs,
      savingsGoal |-> goal,
      localStorage |-> applyTheme(ls, mode),
      lightMode |-> (mode = "light"),
      savingsHidden |-> (goal.k = "null"),
      goalBar |-> IF ok THEN renderGoalBar(goal, txs.items, Unset) ELSE Unset,
      balanceBar |-> IF ok THEN balancePercent(txs.items) ELSE Unset,
      alertVisible |-> IF ok THEN overspendAlert(txs.items) ELSE FALSE,
      pieChart |-> IF ok THEN expenseByCategory(txs.items) ELSE << >>,
      barChart |-> IF ok THEN barData(txs.items)
                   ELSE [income |-> Unset, expense |-> Unset],
      last |-> [op |-> "load", arg |-> << >>, threw |-> ~ok]]

\* The user reloads the page.
DOMContentLoaded ==
  LET s == Loaded(localStorage)
  IN /\ transactions' = s.transactions
     /\ savingsGoal' = s.savingsGoal
     /\ localStorage' = s.localStorage
     /\ lightMode' = s.lightMode
     /\ typeValue' = ""
     /\ categoryOptions' = << >>
     /\ categoryValue' = ""
     /\ alertVisible' = s.alertVisible
     /\ balanceBar' = s.balanceBar
     /\ pieChart' = s.pieChart
     /\ barChart' = s.barChart
     /\ savingsHidden' = s.savingsHidden
     /\ goalBar' = s.goalBar
     /\ last' = s.last

\* The state the handler leaves on the storage ls.
InitOn(ls) ==
  LET s == Loaded(ls)
  IN /\ transactions = s.transactions
     /\ savingsGoal = s.savingsGoal
     /\ localStorage = s.localStorage
     /\ lightMode = s.lightMode
     /\ typeValue = ""
     /\ categoryOptions = << >>
     /\ categoryValue = ""
     /\ alertVisible = s.alertVisible
     /\ balanceBar = s.balanceBar
     /\ pieChart = s.pieChart
     /\ barChart = s.barChart
     /\ savingsHidden = s.savingsHidden
     /\ goalBar = s.goalBar
     /\ last = s.last

\* The first visit: nothing is stored.  What later visits find is what the
\* handlers wrote, which DOMContentLoaded reads back.
FreshStorage ==
  [sft_transactions |-> Absent, sft_theme |-> Absent, sft_goal |-> Absent]

Init == InitOn(FreshStorage)

\* The user's actions on the form with the types picked drawn from types,
\* the handlers of the ledger with the identifiers uid() returns drawn from
\* ids and the amounts typed from amounts, the handlers of the goal with the
\* texts typed drawn from names and targets.
Types == {"income", "expense"}

FormStep(types) ==
  \/ \E t \in types : populateCategories(t)
  \/ \E c \in {"Gaji", "Makanan"} : selectCategory(c)

LedgerStep(ids, amounts) ==
  \/ \E id \in ids, a \in amounts : addTransaction(id, a)
  \/ \E id \in ids : deleteTransaction(id)

GoalStep(names, targets) ==
  \/ \E n \in names, t \in targets : setGoal(n, t)
  \/ clearGoal

Next ==
  \/ FormStep(Types)
  \/ LedgerStep(Ids, AmountInputs)
  \/ toggleTheme
  \/ GoalStep(NameInputs, TargetInputs)
  \/ alertClose
  \/ DOMContentLoaded

\* The whole program.  Its state space is the product of the ledger, the
\* form, the goal and the theme; the properties below are checked on
\* specifications that take steps of Next with fewer inputs.
Spec == Init /\ [][Next]_vars

\* The ledger and its summary, every record with the same identifier.
NextTotals ==
  \/ FormStep(Types)
  \/ LedgerStep({1}, AmountInputs)
  \/ alertClose
  \/ DOMContentLoaded

SpecTotals == Init /\ [][NextTotals]_vars

\* The ledger of expenses, with every identifier, the amount typed or left
\* empty.
NextDelete ==
  \/ FormStep({"expense"})
  \/ LedgerStep(Ids, {"", "1"})
  \/ DOMContentLoaded

SpecDelete == Init /\ [][NextDelete]_vars

\* The goal, over a ledger of records with the same identifier and amount.
NextGoal ==
  \/ FormStep(Types)
  \/ LedgerStep({1}, {"2"})
  \/ GoalStep(NameInputs, TargetInputs)
  \/ DOMContentLoaded

SpecGoal == Init /\ [][NextGoal]_vars

\* The ledger of incomes, the goal and the theme, every record with the same
\* identifier, the amount typed or left empty.
NextReload ==
  \/ FormStep({"income"})
  \/ LedgerStep({1}, {"", "2"})
  \/ toggleTheme
  \/ GoalStep({"Laptop"}, {"", "2"})
  \/ DOMContentLoaded

SpecReload == Init /\ [][NextReload]_vars

\* What the three records can hold when the page is opened after something
\* else wrote them.
StoredTransactions ==
  {Absent, EmptyText, Garbage, JsonText(NotArr("null")),
   JsonText(NotArr("number"))}
StoredGoal == {Absent, Garbage, JsonText(Goal("Laptop", Num(0 - 1)))}
StoredTheme == {Absent, PlainText("blue")}

InitialStorage ==
  [sft_transactions : StoredTransactions, sft_theme : StoredTheme,
   sft_goal : StoredGoal]

InitStored == \E ls \in InitialStorage : InitOn(ls)

NextStored ==
  \/ FormStep({"expense"})
  \/ LedgerStep({1}, {"2"})
  \/ toggleTheme
  \/ GoalStep({"Laptop"}, {"", "2"})
  \/ DOMContentLoaded

SpecStored == InitStored /\ [][NextStored]_vars

\* ------------------------------------------------------------------------
\* Properties
\* ------------------------------------------------------------------------

RECURSIVE AmountSum(_, _)
\* The sum of the amounts of the records of items at the positions S.
AmountSum(items, S) ==
  IF S = {} THEN Num(0)
  ELSE LET i == CHOOSE i \in S : TRUE
       IN Plus(items[i].amount, AmountSum(items, S \ {i}))

OfType(items, type) == {i \in 1..Len(items) : items[i].type = type}

TotalIncome == AmountSum(transactions.items, OfType(transactions.items, "income"))
TotalExpense == AmountSum(transactions.items, OfType(transactions.items, "expense"))

\* 0 <= a <= 100, a a number
InPercentRange(a) ==
  a.k = "num" /\ 0 <= a.n /\ a.n <= 100 * a.d

\* C1: after any sequence of additions and deletions, the totals are the
\* sums of the amounts of the income records and of the expense records of
\* the current ledger, the balance is their difference, and the totals on
\* display are those of the current ledger.
C1_TotalsFromCurrentList ==
  IsArray(transactions) =>
    LET t == calcTotals(transactions.items)
    IN /\ t.income = TotalIncome
       /\ t.expense = TotalExpense
       /\ t.balance = Minus(TotalIncome, TotalExpense)
       /\ barChart = [income |-> TotalIncome, expense |-> TotalExpense]

\* An addition has left an income and an expense with a balance that is a
\* number other than 0.
C1_Witness ==
  /\ last.op = "add"
  /\ IsArray(transactions)
  /\ Len(transactions.items) = 2
  /\ TotalIncome.k = "num" /\ TotalIncome.n > 0
  /\ TotalExpense.k = "num" /\ TotalExpense.n > 0
  /\ TotalIncome # TotalExpense

\* C7: right after a page load, an addition or a deletion, the overspend
\* alert is visible exactly when the expense exceeds the income and the
\* income is positive.
C7_AlertIffOverspend ==
  (last.op \in {"load", "add", "delete"} /\ ~last.threw) =>
    (alertVisible <=>
       (Gt(TotalExpense, TotalIncome) /\ Gt(TotalIncome, Num(0))))

\* An addition has left expenses above a positive income, and the alert
\* shows.
C7_Witness ==
  /\ last.op = "add"
  /\ alertVisible
  /\ Gt(TotalExpense, TotalIncome)
  /\ Gt(TotalIncome, Num(0))

\* The positions of the records of items whose id is not id, and the j-th
\* of them.
Kept(items, id) == {i \in 1..Len(items) : items[i].id # id}
NthKept(items, id, j) ==
  CHOOSE i \in Kept(items, id) :
    Cardinality({m \in Kept(items, id) : m <= i}) = j

\* C3: deleteTransaction(id) leaves the records whose id is not id, in
\* their order, and nothing else; without a record of that id the ledger is
\* unchanged; the ledger it leaves is the one persisted.
C3_DeleteRemovesExactlyId ==
  [][(last'.op = "delete" /\ ~last'.threw) =>
       LET id == last'.arg[1]
           old == transactions.items
           new == transactions'.items
       IN /\ IsArray(transactions')
          /\ Len(new) = Cardinality(Kept(old, id))
          /\ \A j \in 1..Len(new) : new[j] = old[NthKept(old, id, j)]
          /\ (Kept(old, id) = 1..Len(old) => transactions' = transactions)
          /\ localStorage'.sft_transactions
               = StringifyTransactions(transactions')]_vars

\* A deletion has left a record of another id in the ledger.
C3_Witness ==
  /\ last.op = "delete"
  /\ ~last.threw
  /\ Len(transactions.items) >= 1
  /\ \A i \in 1..Len(transactions.items) :
       transactions.items[i].id # last.arg[1]

\* The texts of NameInputs that are empty once trimmed, and the texts of
\* TargetInputs that are not a positive number.
BlankNames == {"", "  "}
BadTargets == {"", "0", "-1"}

\* C8: setGoal with a blank name or with a target that is not a positive
\* number changes neither the goal nor its record; otherwise it replaces the
\* goal by {name, target}, target > 0, and persists it.
C8_SetGoalValidates ==
  [][last'.op = "setGoal" =>
       LET n == last'.arg[1]
           t == last'.arg[2]
       IN IF n \in BlankNames \/ t \in BadTargets
          THEN /\ savingsGoal' = savingsGoal
               /\ localStorage'.sft_goal = localStorage.sft_goal
          ELSE /\ savingsGoal' = Goal(trim(n), parseFloat(t))
               /\ Gt(savingsGoal'.target, Num(0))
               /\ localStorage'.sft_goal = JsonText(savingsGoal')]_vars

\* setGoal has been refused a negative target while a goal exists, and the
\* goal and its record are still there.
C8_Witness ==
  /\ last.op = "setGoal"
  /\ last.arg = << "Laptop", "-1" >>
  /\ savingsGoal.k = "object"
  /\ localStorage.sft_goal = JsonText(savingsGoal)

\* C2: whatever was added, deleted, set, cleared or toggled, loading the
\* page again gives the ledger, the goal and the theme held in memory.
C2_ReloadReproduces ==
  LET s == Loaded(localStorage)
  IN /\ s.transactions = transactions
     /\ s.savingsGoal = savingsGoal
     /\ s.lightMode = lightMode

RECURSIVE ValueSum(_)
\* The sum of the values of the groups of the category chart.
ValueSum(grouped) ==
  IF grouped = << >> THEN Num(0)
  ELSE Plus(Head(grouped).value, ValueSum(Tail(grouped)))

\* C4: the grouping of the category chart has no category whose amount is
\* zero, and its values add up to the total expense.
C4_NoZeroCategory ==
  IsArray(transactions) =>
    /\ \A i \in 1..Len(pieChart) : pieChart[i].value # Num(0)
    /\ ValueSum(pieChart) = TotalExpense

\* C5: the width of the balance bar is a number within [0, 100], and 0 when
\* the total income is 0.
C5_BalancePercentInRange ==
  IsArray(transactions) =>
    /\ InPercentRange(balanceBar)
    /\ (TotalIncome = Num(0) => balanceBar = Num(0))

\* C6: while a goal is set, the width of the goal bar is
\* min(100, max(0, balance) / target * 100), a number within [0, 100].
C6_GoalPercentInRange ==
  (IsArray(transactions) /\ savingsGoal.k = "object") =>
    /\ goalBar = MathMin(Num(100),
                   DivTimes100(MathMax(Num(0), Minus(TotalIncome, TotalExpense)),
                               savingsGoal.target))
    /\ InPercentRange(goalBar)

\* C9: whatever the records hold, the page load ends without an uncaught
\* error and leaves a ledger that is a list, so that no later handler
\* throws.
C9_LoadFallsBack ==
  /\ ~last.threw
  /\ IsArray(transactions)

\* C10: the category of every record of the ledger is one of the categories
\* of the type of the record.
C10_CategoryOfOwnType ==
  IsArray(transactions) =>
    \A i \in 1..Len(transactions.items) :
      LET t == transactions.items[i]
      IN /\ t.type \in DOMAIN CATEGORIES
         /\ \E j \in 1..Len(CATEGORIES[t.type]) :
              CATEGORIES[t.type][j] = t.category

====
